---- MODULE Spec2Model ----
(***************************************************************************)
(* Backtracking CSP solvers of the repository, as one state machine:       *)
(*   csp  - src/sudoku_csp.py            plain backtracking Sudoku         *)
(*   fc   - src/sudoku_forward_check.py  static order + forward checking   *)
(*   mrv  - src/sudoku.py                MRV order + forward checking      *)
(*   map  - src/map_coloring_csp.py      plain backtracking map colouring  *)
(* The recursion of each backtrack_solve is an explicit stack of frames;   *)
(* one step is the entry of a call, one iteration of the value loop, or    *)
(* the return of a call whose loop is exhausted.                           *)
(***************************************************************************)
EXTENDS Integers, Sequences, FiniteSets, TLC

VARIABLES
    puzzle,             \* the input grid of the Sudoku scripts (__main__: puzzle)
    adjacency,          \* the input adjacency mapping of the map script
    COLOR_PALETTE,      \* the palette of the map script (module global)
    engine,             \* the script whose solve is running (or ran last)
    pc,                 \* "idle" | "call" (a backtrack_solve call starts) | "loop"
    grid,               \* the grid object handed to backtrack_solve
    domains,            \* the domains dict handed to backtrack_solve
    variables,          \* the variables list of the map script
    assignments,        \* the assignments dict of the map script
    stack,              \* active backtrack_solve frames, outermost first
    assignments_count,  \* module-level counter, one per script
    backtracks_count,   \* module-level counter, one per script
    result,             \* per script: what the top-level backtrack_solve returned
    reports             \* per script: after each top-level call, what its caller
                        \* sees: the returned value and the two counters

vars == <<puzzle, adjacency, COLOR_PALETTE, engine, pc, grid, domains, variables,
          assignments, stack, assignments_count, backtracks_count, result, reports>>

(***************************************************************************)
(* Python lists                                                            *)
(***************************************************************************)
\* x in s
In(x, s) == \E i \in 1..Len(s) : s[i] = x

\* s.remove(x): drops the first occurrence of x
remove(s, x) ==
    IF ~In(x, s) THEN s
    ELSE LET i == CHOOSE j \in 1..Len(s) : s[j] = x /\ \A k \in 1..(j - 1) : s[k] # x
         IN  SubSeq(s, 1, i - 1) \o SubSeq(s, i + 1, Len(s))

\* reversed(s)
reversed(s) == [i \in 1..Len(s) |-> s[Len(s) + 1 - i]]

\* insertion of x into the ascending list s, after the elements equal to it
RECURSIVE insert_sorted(_, _)
insert_sorted(s, x) ==
    IF s = <<>> THEN <<x>>
    ELSE IF x < Head(s) THEN <<x>> \o s
    ELSE <<Head(s)>> \o insert_sorted(Tail(s), x)

\* sorted(s) / s.sort() on a list of integers
RECURSIVE sorted(_)
sorted(s) == IF s = <<>> THEN <<>> ELSE insert_sorted(sorted(SubSeq(s, 1, Len(s) - 1)), s[Len(s)])

\* tuple comparison (row, column) < (row, column)
tuple_less(a, b) == a[1] < b[1] \/ (a[1] = b[1] /\ a[2] < b[2])

\* the None of an Optional[Variable]
None == <<>>

\* list(range(1, 10))
range_1_10 == [i \in 1..9 |-> i]

\* a 9x9 grid, rows and columns indexed from 0 as in the source
GridOf(rows) == [row \in 0..8 |-> [column \in 0..8 |-> rows[row + 1][column + 1]]]

(***************************************************************************)
(* src/sudoku_csp.py                                                       *)
(***************************************************************************)
csp_get_domain(grid_, var) ==
    IF grid_[var[1]][var[2]] # 0 THEN <<grid_[var[1]][var[2]]>> ELSE range_1_10

\* check_constraint without its column scan
csp_check_constraint_no_column(grid_, var, value) ==
    LET row == var[1]
        column == var[2]
        box_start_row == (row \div 3) * 3
        box_start_column == (column \div 3) * 3
    IN  /\ \A column_index \in 0..8 :
              column_index # column => grid_[row][column_index] # value
        /\ \A box_row_index \in box_start_row..(box_start_row + 2) :
              \A box_column_index \in box_start_column..(box_start_column + 2) :
                  ~(box_row_index = row /\ box_column_index = column)
                      => grid_[box_row_index][box_column_index] # value

csp_check_constraint(grid_, var, value) ==
    LET row == var[1]
        column == var[2]
        box_start_row == (row \div 3) * 3
        box_start_column == (column \div 3) * 3
    IN  /\ \A column_index \in 0..8 :
              column_index # column => grid_[row][column_index] # value
        /\ \A row_index \in 0..8 :
              row_index # row => grid_[row_index][column] # value
        /\ \A box_row_index \in box_start_row..(box_start_row + 2) :
              \A box_column_index \in box_start_column..(box_start_column + 2) :
                  ~(box_row_index = row /\ box_column_index = column)
                      => grid_[box_row_index][box_column_index] # value

\* first empty cell in row-major order
RECURSIVE csp_select_scan(_, _)
csp_select_scan(grid_, k) ==
    IF k > 81 THEN None
    ELSE IF grid_[(k - 1) \div 9][(k - 1) % 9] = 0 THEN <<(k - 1) \div 9, (k - 1) % 9>>
    ELSE csp_select_scan(grid_, k + 1)

\* select_unassigned_variable with the test of the cell inverted: the first cell
\* that holds a value
RECURSIVE csp_select_scan_filled(_, _)
csp_select_scan_filled(grid_, k) ==
    IF k > 81 THEN None
    ELSE IF grid_[(k - 1) \div 9][(k - 1) % 9] # 0 THEN <<(k - 1) \div 9, (k - 1) % 9>>
    ELSE csp_select_scan_filled(grid_, k + 1)

csp_select_unassigned_variable_filled(grid_) == csp_select_scan_filled(grid_, 1)

csp_select_unassigned_variable(grid_) == csp_select_scan(grid_, 1)

(***************************************************************************)
(* src/sudoku_forward_check.py                                             *)
(***************************************************************************)
fc_check_constraint(grid_, var, value) ==
    LET row == var[1]
        column == var[2]
        box_start_row == (row \div 3) * 3
        box_start_column == (column \div 3) * 3
    IN  /\ \A peer_column \in 0..8 :
              peer_column # column => grid_[row][peer_column] # value
        /\ \A peer_row \in 0..8 :
              peer_row # row => grid_[peer_row][column] # value
        /\ \A box_row_index \in box_start_row..(box_start_row + 2) :
              \A box_column_index \in box_start_column..(box_start_column + 2) :
                  ~(box_row_index = row /\ box_column_index = column)
                      => grid_[box_row_index][box_column_index] # value

\* the values present in the row, the column and the box of (row, column)
fc_used_values(grid_, row, column) ==
    LET box_start_row == (row \div 3) * 3
        box_start_column == (column \div 3) * 3
        used_in_row == {grid_[row][peer_column] : peer_column \in 0..8} \ {0}
        used_in_column == {grid_[peer_row][column] : peer_row \in 0..8} \ {0}
        used_in_box == {grid_[r][c] : r \in box_start_row..(box_start_row + 2),
                                      c \in box_start_column..(box_start_column + 2)} \ {0}
    IN  used_in_row \cup used_in_column \cup used_in_box

\* initial_domains with used_in_box left out of used_values
fc_initial_domains_no_box(grid_) ==
    [variable \in (0..8) \X (0..8) |->
        IF grid_[variable[1]][variable[2]] # 0
        THEN <<grid_[variable[1]][variable[2]]>>
        ELSE LET row == variable[1]
                 column == variable[2]
                 used_in_row == {grid_[row][peer_column] : peer_column \in 0..8} \ {0}
                 used_in_column == {grid_[peer_row][column] : peer_row \in 0..8} \ {0}
                 unused(v) == v \notin (used_in_row \cup used_in_column)
             IN  SelectSeq(range_1_10, unused)]

fc_initial_domains(grid_) ==
    [variable \in (0..8) \X (0..8) |->
        IF grid_[variable[1]][variable[2]] # 0
        THEN <<grid_[variable[1]][variable[2]]>>
        ELSE LET used_values == fc_used_values(grid_, variable[1], variable[2])
                 unused(v) == v \notin used_values
             IN  SelectSeq(range_1_10, unused)]

fc_peers_of(var) ==
    LET row == var[1]
        column == var[2]
        box_start_row == (row \div 3) * 3
        box_start_column == (column \div 3) * 3
        other_column(p) == p[2] # column
        other_row(p) == p[1] # row
        row_peers == SelectSeq([i \in 1..9 |-> <<row, i - 1>>], other_column)
        column_peers == SelectSeq([i \in 1..9 |-> <<i - 1, column>>], other_row)
        new_peer(p) == p # var /\ ~In(p, row_peers \o column_peers)
        box_cells == [i \in 1..9 |->
                        <<box_start_row + ((i - 1) \div 3), box_start_column + ((i - 1) % 3)>>]
    IN  row_peers \o column_peers \o SelectSeq(box_cells, new_peer)

\* the loop of forward_check from the i-th peer on.  The result holds the domains
\* dict as the call leaves it, and the return value: is_none, or the record pruned
RECURSIVE fc_forward_check_scan(_, _, _, _, _, _)
fc_forward_check_scan(peers, i, assigned_value, domains_, grid_, pruned_list) ==
    IF i > Len(peers)
    THEN [domains |-> domains_, is_none |-> FALSE, pruned |-> pruned_list]
    ELSE LET peer == peers[i] IN
         IF grid_[peer[1]][peer[2]] # 0
         THEN fc_forward_check_scan(peers, i + 1, assigned_value, domains_, grid_, pruned_list)
         ELSE IF In(assigned_value, domains_[peer])
         THEN LET removed == [domains_ EXCEPT ![peer] = remove(@, assigned_value)]
              IN  IF removed[peer] = <<>>
                  THEN [domains |-> removed, is_none |-> TRUE, pruned |-> <<>>]
                  ELSE fc_forward_check_scan(peers, i + 1, assigned_value, removed, grid_,
                                             Append(pruned_list, <<peer, assigned_value>>))
         ELSE fc_forward_check_scan(peers, i + 1, assigned_value, domains_, grid_, pruned_list)

\* forward_check with the append to pruned_list moved out of the membership test:
\* every empty peer is recorded
RECURSIVE fc_forward_check_scan_records_all(_, _, _, _, _, _)
fc_forward_check_scan_records_all(peers, i, assigned_value, domains_, grid_, pruned_list) ==
    IF i > Len(peers)
    THEN [domains |-> domains_, is_none |-> FALSE, pruned |-> pruned_list]
    ELSE LET peer == peers[i]
             recorded == Append(pruned_list, <<peer, assigned_value>>)
         IN
         IF grid_[peer[1]][peer[2]] # 0
         THEN fc_forward_check_scan_records_all(peers, i + 1, assigned_value, domains_,
                                                grid_, pruned_list)
         ELSE IF In(assigned_value, domains_[peer])
         THEN LET removed == [domains_ EXCEPT ![peer] = remove(@, assigned_value)]
              IN  IF removed[peer] = <<>>
                  THEN [domains |-> removed, is_none |-> TRUE, pruned |-> <<>>]
                  ELSE fc_forward_check_scan_records_all(peers, i + 1, assigned_value,
                                                         removed, grid_, recorded)
         ELSE fc_forward_check_scan_records_all(peers, i + 1, assigned_value, domains_,
                                                grid_, recorded)

fc_forward_check_records_all(assign_variable, assigned_value, domains_, grid_) ==
    fc_forward_check_scan_records_all(fc_peers_of(assign_variable), 1, assigned_value,
                                      domains_, grid_, <<>>)

fc_forward_check(assign_variable, assigned_value, domains_, grid_) ==
    fc_forward_check_scan(fc_peers_of(assign_variable), 1, assigned_value, domains_, grid_, <<>>)

\* undo_pruning: re-appends each recorded value, last record first
RECURSIVE fc_undo_scan(_, _, _)
fc_undo_scan(record, i, domains_) ==
    IF i > Len(record) THEN domains_
    ELSE LET variable == record[i][1]
             removed_value == record[i][2]
         IN  IF ~In(removed_value, domains_[variable])
             THEN fc_undo_scan(record, i + 1,
                               [domains_ EXCEPT ![variable] = Append(@, removed_value)])
             ELSE fc_undo_scan(record, i + 1, domains_)

fc_undo_pruning(pruned_list, domains_) == fc_undo_scan(reversed(pruned_list), 1, domains_)

RECURSIVE fc_select_scan(_, _)
fc_select_scan(grid_, k) ==
    IF k > 81 THEN None
    ELSE IF grid_[(k - 1) \div 9][(k - 1) % 9] = 0 THEN <<(k - 1) \div 9, (k - 1) % 9>>
    ELSE fc_select_scan(grid_, k + 1)

fc_select_unassigned_variable(grid_) == fc_select_scan(grid_, 1)

(***************************************************************************)
(* src/sudoku.py                                                           *)
(***************************************************************************)
\* check_constraint without the skips of the cell itself
mrv_check_constraint_counts_self(grid_, var, value) ==
    LET row == var[1]
        column == var[2]
        box_start_row == (row \div 3) * 3
        box_start_column == (column \div 3) * 3
    IN  /\ \A peer_column \in 0..8 : grid_[row][peer_column] # value
        /\ \A peer_row \in 0..8 : grid_[peer_row][column] # value
        /\ \A box_row_index \in box_start_row..(box_start_row + 2) :
              \A box_column_index \in box_start_column..(box_start_column + 2) :
                  grid_[box_row_index][box_column_index] # value

mrv_check_constraint(grid_, var, value) ==
    LET row == var[1]
        column == var[2]
        box_start_row == (row \div 3) * 3
        box_start_column == (column \div 3) * 3
    IN  /\ \A peer_column \in 0..8 :
              peer_column # column => grid_[row][peer_column] # value
        /\ \A peer_row \in 0..8 :
              peer_row # row => grid_[peer_row][column] # value
        /\ \A box_row_index \in box_start_row..(box_start_row + 2) :
              \A box_column_index \in box_start_column..(box_start_column + 2) :
                  ~(box_row_index = row /\ box_column_index = column)
                      => grid_[box_row_index][box_column_index] # value

mrv_peers_of(var) ==
    LET row == var[1]
        column == var[2]
        box_start_row == (row \div 3) * 3
        box_start_column == (column \div 3) * 3
        other_column(p) == p[2] # column
        other_row(p) == p[1] # row
        row_peers == SelectSeq([i \in 1..9 |-> <<row, i - 1>>], other_column)
        column_peers == SelectSeq([i \in 1..9 |-> <<i - 1, column>>], other_row)
        new_peer(peer_variable) ==
            peer_variable # var /\ ~In(peer_variable, row_peers \o column_peers)
        box_cells == [i \in 1..9 |->
                        <<box_start_row + ((i - 1) \div 3), box_start_column + ((i - 1) % 3)>>]
    IN  row_peers \o column_peers \o SelectSeq(box_cells, new_peer)

mrv_used_values(grid_, row, column) ==
    LET box_start_row == (row \div 3) * 3
        box_start_column == (column \div 3) * 3
        used_in_row == {grid_[row][peer_column] : peer_column \in 0..8} \ {0}
        used_in_column == {grid_[peer_row][column] : peer_row \in 0..8} \ {0}
        used_in_box == {grid_[r][c] : r \in box_start_row..(box_start_row + 2),
                                      c \in box_start_column..(box_start_column + 2)} \ {0}
    IN  used_in_row \cup used_in_column \cup used_in_box

mrv_initial_domains(grid_) ==
    [variable \in (0..8) \X (0..8) |->
        IF grid_[variable[1]][variable[2]] # 0
        THEN <<grid_[variable[1]][variable[2]]>>
        ELSE LET used_values == mrv_used_values(grid_, variable[1], variable[2])
                 unused(v) == v \notin used_values
             IN  sorted(SelectSeq(range_1_10, unused))]

RECURSIVE mrv_forward_check_scan(_, _, _, _, _, _)
mrv_forward_check_scan(peers, i, assigned_value, domains_, grid_, pruned_list) ==
    IF i > Len(peers)
    THEN [domains |-> domains_, is_none |-> FALSE, pruned |-> pruned_list]
    ELSE LET peer_variable == peers[i] IN
         IF grid_[peer_variable[1]][peer_variable[2]] # 0
         THEN mrv_forward_check_scan(peers, i + 1, assigned_value, domains_, grid_, pruned_list)
         ELSE IF In(assigned_value, domains_[peer_variable])
         THEN LET removed == [domains_ EXCEPT ![peer_variable] = remove(@, assigned_value)]
              IN  IF removed[peer_variable] = <<>>
                  THEN [domains |-> removed, is_none |-> TRUE, pruned |-> <<>>]
                  ELSE mrv_forward_check_scan(peers, i + 1, assigned_value, removed, grid_,
                           Append(pruned_list, <<peer_variable, assigned_value>>))
         ELSE mrv_forward_check_scan(peers, i + 1, assigned_value, domains_, grid_, pruned_list)

mrv_forward_check(assign_variable, assigned_value, domains_, grid_) ==
    mrv_forward_check_scan(mrv_peers_of(assign_variable), 1, assigned_value, domains_, grid_, <<>>)

\* undo_pruning: re-appends each recorded value and sorts the list
RECURSIVE mrv_undo_scan(_, _, _)
mrv_undo_scan(record, i, domains_) ==
    IF i > Len(record) THEN domains_
    ELSE LET variable == record[i][1]
             removed_value == record[i][2]
         IN  IF ~In(removed_value, domains_[variable])
             THEN mrv_undo_scan(record, i + 1,
                      [domains_ EXCEPT ![variable] = sorted(Append(@, removed_value))])
             ELSE mrv_undo_scan(record, i + 1, domains_)

mrv_undo_pruning(pruned_list, domains_) == mrv_undo_scan(reversed(pruned_list), 1, domains_)

\* the scan of the MRV selection from the k-th cell (row-major) on
RECURSIVE mrv_select_scan(_, _, _, _, _)
mrv_select_scan(grid_, domains_, k, best_variable, best_domain_size) ==
    IF k > 81 THEN best_variable
    ELSE LET variable == <<(k - 1) \div 9, (k - 1) % 9>>
             domain_size == Len(domains_[variable])
         IN  IF grid_[variable[1]][variable[2]] # 0
             THEN mrv_select_scan(grid_, domains_, k + 1, best_variable, best_domain_size)
             ELSE IF domain_size = 0 THEN variable
             ELSE IF domain_size < best_domain_size
             THEN IF domain_size = 1 THEN variable
                  ELSE mrv_select_scan(grid_, domains_, k + 1, variable, domain_size)
             ELSE IF /\ domain_size = best_domain_size
                     /\ best_variable # None
                     /\ tuple_less(variable, best_variable)
             THEN mrv_select_scan(grid_, domains_, k + 1, variable, best_domain_size)
             ELSE mrv_select_scan(grid_, domains_, k + 1, best_variable, best_domain_size)

mrv_select_unassigned_variable(grid_, domains_) == mrv_select_scan(grid_, domains_, 1, None, 10)

(***************************************************************************)
(* src/map_coloring_csp.py                                                 *)
(***************************************************************************)
\* the palette of the source, in the order of the source
DEFAULT_PALETTE == <<"#e31a93", "#ffff00", "#1f78b4", "#33a02c", "#e31a1c", "#ff7f00">>

\* region names the inputs are built from, in Python's string order
REGION_NAMES == <<"A", "B", "C", "D", "E", "F">>

\* Python's string order on the tokens of the model: the index in this list
STRING_ORDER == <<"#1f78b4", "#33a02c", "#e31a1c", "#e31a93", "#ff7f00", "#ffff00",
                  "A", "B", "C", "D", "E", "F">>

string_rank(s) == CHOOSE i \in 1..Len(STRING_ORDER) : STRING_ORDER[i] = s

RECURSIVE insert_sorted_str(_, _)
insert_sorted_str(s, x) ==
    IF s = <<>> THEN <<x>>
    ELSE IF string_rank(x) < string_rank(Head(s)) THEN <<x>> \o s
    ELSE <<Head(s)>> \o insert_sorted_str(Tail(s), x)

\* sorted(s) on a list of strings
RECURSIVE sorted_str(_)
sorted_str(s) ==
    IF s = <<>> THEN <<>>
    ELSE insert_sorted_str(sorted_str(SubSeq(s, 1, Len(s) - 1)), s[Len(s)])

\* a list of the elements of a finite set of strings, in some order (list(d.keys()))
RECURSIVE list_of(_)
list_of(S) == IF S = {} THEN <<>> ELSE LET x == CHOOSE y \in S : TRUE
                                       IN  <<x>> \o list_of(S \ {x})

\* the None of an Optional[str]
NoneStr == "None"

map_get_variables(adjacency_) == sorted_str(list_of(DOMAIN adjacency_))

map_get_domain(variable) == COLOR_PALETTE

\* check_constraint with != for ==: rejects a colour no assigned neighbour has
map_check_constraint_unequal(assignments_, adjacency_, variable, color_choice) ==
    \A i \in 1..Len(adjacency_[variable]) :
        LET neighbor == adjacency_[variable][i]
        IN  ~(neighbor \in DOMAIN assignments_ /\ assignments_[neighbor] # color_choice)

\* check_constraint without the colour comparison: rejects next to any assigned neighbour
map_check_constraint_any_neighbor(assignments_, adjacency_, variable, color_choice) ==
    \A i \in 1..Len(adjacency_[variable]) :
        LET neighbor == adjacency_[variable][i]
        IN  ~(neighbor \in DOMAIN assignments_)

map_check_constraint(assignments_, adjacency_, variable, color_choice) ==
    \A i \in 1..Len(adjacency_[variable]) :
        LET neighbor == adjacency_[variable][i]
        IN  ~(neighbor \in DOMAIN assignments_ /\ assignments_[neighbor] = color_choice)

RECURSIVE map_select_scan(_, _, _)
map_select_scan(variables_, assignments_, i) ==
    IF i > Len(variables_) THEN NoneStr
    ELSE IF variables_[i] \notin DOMAIN assignments_ THEN variables_[i]
    ELSE map_select_scan(variables_, assignments_, i + 1)

map_select_unassigned_variable(variables_, assignments_) ==
    map_select_scan(variables_, assignments_, 1)

(***************************************************************************)
(* Inputs                                                                  *)
(***************************************************************************)
\* the example puzzle of the three Sudoku scripts
example_puzzle ==
    GridOf(<< <<5,3,0, 0,7,0, 0,0,0>>,
              <<6,0,0, 1,9,5, 0,0,0>>,
              <<0,9,8, 0,0,0, 0,6,0>>,
              <<8,0,0, 0,6,0, 0,0,3>>,
              <<4,0,0, 8,0,3, 0,0,1>>,
              <<7,0,0, 0,2,0, 0,0,6>>,
              <<0,6,0, 0,0,0, 2,8,0>>,
              <<0,0,0, 4,1,9, 0,0,5>>,
              <<0,0,0, 0,8,0, 0,7,9>> >>)

\* the completion of the example puzzle
ExampleSolution ==
    GridOf(<< <<5,3,4, 6,7,8, 9,1,2>>,
              <<6,7,2, 1,9,5, 3,4,8>>,
              <<1,9,8, 3,4,2, 5,6,7>>,
              <<8,5,9, 7,6,1, 4,2,3>>,
              <<4,2,6, 8,5,3, 7,9,1>>,
              <<7,1,3, 9,2,4, 8,5,6>>,
              <<9,6,1, 5,3,7, 2,8,4>>,
              <<2,8,7, 4,1,9, 6,3,5>>,
              <<3,4,5, 2,8,6, 1,7,9>> >>)

\* input grids: ExampleSolution with some of HoleCells emptied (at most MaxBlanks
\* of them, or all but at most MaxFilled), and PatchCell overwritten by any of 0..9
MaxBlanks == 2
MaxFilled == 2

HoleCells == {<<0,0>>, <<0,1>>, <<0,2>>, <<5,0>>, <<5,2>>, <<7,2>>, <<7,7>>,
              <<8,0>>, <<8,1>>, <<8,7>>}

PatchCell == <<0,3>>

BlankSets == {B \in SUBSET HoleCells :
                 \/ Cardinality(B) <= MaxBlanks
                 \/ Cardinality(HoleCells \ B) <= MaxFilled}

Variant(B, v) ==
    [row \in 0..8 |-> [column \in 0..8 |->
        IF <<row, column>> = PatchCell THEN v
        ELSE IF <<row, column>> \in B THEN 0
        ELSE ExampleSolution[row][column]]]

SudokuInputs == {example_puzzle} \cup {Variant(B, v) : B \in BlankSets, v \in 0..9}

\* input maps: the first n region names, n <= MaxRegions, with any symmetric
\* adjacency without self-loops, neighbour lists sorted; palettes: the first
\* k colours of the source's palette, 1 <= k <= MaxColors
MaxRegions == 4
MaxColors == 3

RegionPairs(n) == {p \in (1..n) \X (1..n) : p[1] < p[2]}

AdjacencyOf(n, E) ==
    [r \in {REGION_NAMES[i] : i \in 1..n} |->
        LET me == string_rank(r) - string_rank(REGION_NAMES[1]) + 1
            is_neighbor(name) ==
                LET other == string_rank(name) - string_rank(REGION_NAMES[1]) + 1
                IN  <<me, other>> \in E \/ <<other, me>> \in E
        IN  SelectSeq(SubSeq(REGION_NAMES, 1, n), is_neighbor)]

MapInputs ==
    UNION {{AdjacencyOf(n, E) : E \in SUBSET RegionPairs(n)} : n \in 1..MaxRegions}

Palettes == {SubSeq(DEFAULT_PALETTE, 1, k) : k \in 1..MaxColors}

SudokuEngines == {"csp", "fc", "mrv"}

\* top-level calls of backtrack_solve made in one process of a plain script
MaxSolves == 2

Pending == [ret |-> "pending", value |-> <<>>]

(***************************************************************************)
(* Initial states: one of the Sudoku inputs, to be solved by the three     *)
(* Sudoku scripts one after the other (forward checking, MRV, plain), or   *)
(* one map input for the map script.                                       *)
(***************************************************************************)
InitSudoku ==
    /\ puzzle \in SudokuInputs
    /\ adjacency = <<>>
    /\ COLOR_PALETTE = DEFAULT_PALETTE
    /\ result = [e \in SudokuEngines |-> Pending]
    /\ assignments_count = [e \in SudokuEngines |-> 0]
    /\ backtracks_count = [e \in SudokuEngines |-> 0]
    /\ reports = [e \in SudokuEngines |-> <<>>]

InitMap ==
    /\ puzzle = <<>>
    /\ adjacency \in MapInputs
    /\ COLOR_PALETTE \in Palettes
    /\ result = [e \in {"map"} |-> Pending]
    /\ assignments_count = [e \in {"map"} |-> 0]
    /\ backtracks_count = [e \in {"map"} |-> 0]
    /\ reports = [e \in {"map"} |-> <<>>]

Init ==
    /\ InitSudoku \/ InitMap
    /\ engine = "none"
    /\ pc = "idle"
    /\ grid = <<>>
    /\ domains = <<>>
    /\ variables = <<>>
    /\ assignments = <<>>
    /\ stack = <<>>

\* the frame of the innermost active call, and the frame of its caller
Top == stack[Len(stack)]
Caller == stack[Len(stack) - 1]

\* the stack with its innermost frame replaced
WithTop(frame) == [stack EXCEPT ![Len(stack)] = frame]

\* the reports once the top-level call of script e has returned value r
Reported(e, r) ==
    [reports EXCEPT ![e] = Append(@, [result |-> r,
                                      assignments_count |-> assignments_count[e],
                                      backtracks_count |-> backtracks_count[e]])]

\* the stack after the innermost call returned, its caller's loop moving on
PopAndAdvance == [SubSeq(stack, 1, Len(stack) - 1) EXCEPT ![Len(stack) - 1].idx = @ + 1]

(***************************************************************************)
(* src/sudoku_csp.py: __main__ and backtrack_solve                         *)
(***************************************************************************)
\* __main__: reset the counters, backtrack_solve(copy.deepcopy(puzzle))
csp_Main ==
    /\ pc = "idle"
    /\ "csp" \in DOMAIN result
    /\ result["csp"].ret = "pending"
    /\ result["mrv"].ret # "pending"
    /\ engine' = "csp"
    /\ assignments_count' = [assignments_count EXCEPT !["csp"] = 0]
    /\ backtracks_count' = [backtracks_count EXCEPT !["csp"] = 0]
    /\ grid' = puzzle
    /\ stack' = <<>>
    /\ pc' = "call"
    /\ UNCHANGED <<puzzle, adjacency, COLOR_PALETTE, domains, variables, assignments, result, reports>>

\* a further top-level call in the same process, backtrack_solve(copy.deepcopy(
\* puzzle)): backtrack_solve declares the counters global and resets nothing
csp_SolveAgain ==
    /\ pc = "idle"
    /\ "csp" \in DOMAIN result
    /\ Len(reports["csp"]) \in 1..(MaxSolves - 1)
    /\ engine' = "csp"
    /\ grid' = puzzle
    /\ stack' = <<>>
    /\ pc' = "call"
    /\ UNCHANGED <<puzzle, adjacency, COLOR_PALETTE, domains, variables, assignments,
                   assignments_count, backtracks_count, result, reports>>

\* entry of a call: select a variable; none left: the grid is returned, and every
\* caller returns it unchanged
csp_Enter ==
    /\ engine = "csp"
    /\ pc = "call"
    /\ LET variable == csp_select_unassigned_variable(grid) IN
       IF variable = None
       THEN /\ result' = [result EXCEPT !["csp"] = [ret |-> "grid", value |-> grid]]
            /\ reports' = Reported("csp", [ret |-> "grid", value |-> grid])
            /\ stack' = <<>>
            /\ pc' = "idle"
       ELSE /\ stack' = Append(stack, [variable |-> variable,
                                       values |-> csp_get_domain(grid, variable),
                                       idx |-> 1])
            /\ pc' = "loop"
            /\ UNCHANGED <<result, reports>>
    /\ UNCHANGED <<puzzle, adjacency, COLOR_PALETTE, engine, grid, domains, variables,
                   assignments, assignments_count, backtracks_count>>

\* one iteration of the value loop: a value that passes check_constraint is
\* assigned and the solver recurses; any other is skipped
csp_Iterate ==
    /\ engine = "csp"
    /\ pc = "loop"
    /\ Top.idx <= Len(Top.values)
    /\ LET variable == Top.variable
           row == variable[1]
           column == variable[2]
           value == Top.values[Top.idx]
       IN  IF csp_check_constraint(grid, variable, value)
           THEN /\ grid' = [grid EXCEPT ![row][column] = value]
                /\ assignments_count' = [assignments_count EXCEPT !["csp"] = @ + 1]
                /\ pc' = "call"
                /\ UNCHANGED stack
           ELSE /\ stack' = WithTop([Top EXCEPT !.idx = @ + 1])
                /\ UNCHANGED <<grid, assignments_count, pc>>
    /\ UNCHANGED <<puzzle, adjacency, COLOR_PALETTE, engine, domains, variables,
                   assignments, backtracks_count, result, reports>>

\* csp_Return without "backtracks_count += 1" after the undo
csp_Return_uncounted ==
    /\ engine = "csp"
    /\ pc = "loop"
    /\ Top.idx > Len(Top.values)
    /\ IF Len(stack) = 1
       THEN /\ result' = [result EXCEPT !["csp"] = [ret |-> "None", value |-> <<>>]]
            /\ reports' = Reported("csp", [ret |-> "None", value |-> <<>>])
            /\ stack' = <<>>
            /\ pc' = "idle"
            /\ UNCHANGED grid
       ELSE /\ grid' = [grid EXCEPT ![Caller.variable[1]][Caller.variable[2]] = 0]
            /\ stack' = PopAndAdvance
            /\ UNCHANGED <<result, reports, pc>>
    /\ UNCHANGED <<puzzle, adjacency, COLOR_PALETTE, engine, domains, variables,
                   assignments, assignments_count, backtracks_count>>

\* the loop is exhausted: the call returns None; its caller undoes its assignment
\* and moves to its next value; the top-level call returns None to __main__
csp_Return ==
    /\ engine = "csp"
    /\ pc = "loop"
    /\ Top.idx > Len(Top.values)
    /\ IF Len(stack) = 1
       THEN /\ result' = [result EXCEPT !["csp"] = [ret |-> "None", value |-> <<>>]]
            /\ reports' = Reported("csp", [ret |-> "None", value |-> <<>>])
            /\ stack' = <<>>
            /\ pc' = "idle"
            /\ UNCHANGED <<grid, backtracks_count>>
       ELSE /\ grid' = [grid EXCEPT ![Caller.variable[1]][Caller.variable[2]] = 0]
            /\ backtracks_count' = [backtracks_count EXCEPT !["csp"] = @ + 1]
            /\ stack' = PopAndAdvance
            /\ UNCHANGED <<result, reports, pc>>
    /\ UNCHANGED <<puzzle, adjacency, COLOR_PALETTE, engine, domains, variables,
                   assignments, assignments_count>>

(***************************************************************************)
(* src/sudoku_forward_check.py: __main__ and backtrack_solve               *)
(***************************************************************************)
\* __main__: domains = initial_domains(copy.deepcopy(puzzle)), reset the counters,
\* backtrack_solve(copy.deepcopy(puzzle), domains)
fc_Main ==
    /\ pc = "idle"
    /\ "fc" \in DOMAIN result
    /\ result["fc"].ret = "pending"
    /\ engine' = "fc"
    /\ domains' = fc_initial_domains(puzzle)
    /\ assignments_count' = [assignments_count EXCEPT !["fc"] = 0]
    /\ backtracks_count' = [backtracks_count EXCEPT !["fc"] = 0]
    /\ grid' = puzzle
    /\ stack' = <<>>
    /\ pc' = "call"
    /\ UNCHANGED <<puzzle, adjacency, COLOR_PALETTE, variables, assignments, result, reports>>

fc_Enter ==
    /\ engine = "fc"
    /\ pc = "call"
    /\ LET variable == fc_select_unassigned_variable(grid) IN
       IF variable = None
       THEN /\ result' = [result EXCEPT !["fc"] = [ret |-> "grid", value |-> grid]]
            /\ reports' = Reported("fc", [ret |-> "grid", value |-> grid])
            /\ stack' = <<>>
            /\ pc' = "idle"
       ELSE /\ stack' = Append(stack, [variable |-> variable,
                                       values |-> domains[variable],
                                       idx |-> 1,
                                       saved_domain_for_variable |-> <<>>,
                                       pruned |-> <<>>])
            /\ pc' = "loop"
            /\ UNCHANGED <<result, reports>>
    /\ UNCHANGED <<puzzle, adjacency, COLOR_PALETTE, engine, grid, domains, variables,
                   assignments, assignments_count, backtracks_count>>

\* one iteration of the value loop.  A value that passes check_constraint is
\* assigned, the domain collapsed and the peers pruned; with a record the solver
\* recurses; with None (a wipeout) the iteration runs on to its undo lines
fc_Iterate ==
    /\ engine = "fc"
    /\ pc = "loop"
    /\ Top.idx <= Len(Top.values)
    /\ LET variable == Top.variable
           row == variable[1]
           column == variable[2]
           value == Top.values[Top.idx]
           assigned == [grid EXCEPT ![row][column] = value]
           saved_domain_for_variable == domains[variable]
           collapsed == [domains EXCEPT ![variable] = <<value>>]
           checked == fc_forward_check(variable, value, collapsed, assigned)
       IN  IF ~fc_check_constraint(grid, variable, value)
           THEN /\ stack' = WithTop([Top EXCEPT !.idx = @ + 1])
                /\ UNCHANGED <<grid, domains, assignments_count, backtracks_count, pc>>
           ELSE IF ~checked.is_none
           THEN /\ grid' = assigned
                /\ assignments_count' = [assignments_count EXCEPT !["fc"] = @ + 1]
                /\ domains' = checked.domains
                /\ stack' = WithTop([Top EXCEPT
                                 !.saved_domain_for_variable = saved_domain_for_variable,
                                 !.pruned = checked.pruned])
                /\ pc' = "call"
                /\ UNCHANGED backtracks_count
           ELSE /\ grid' = [assigned EXCEPT ![row][column] = 0]
                /\ assignments_count' = [assignments_count EXCEPT !["fc"] = @ + 1]
                /\ domains' = [checked.domains EXCEPT ![variable] = saved_domain_for_variable]
                /\ backtracks_count' = [backtracks_count EXCEPT !["fc"] = @ + 1]
                /\ stack' = WithTop([Top EXCEPT !.idx = @ + 1])
                /\ UNCHANGED pc
    /\ UNCHANGED <<puzzle, adjacency, COLOR_PALETTE, engine, variables, assignments, result, reports>>

\* the loop is exhausted: the call returns None; its caller undoes its prunings,
\* its assignment and its domain, and moves to its next value
fc_Return ==
    /\ engine = "fc"
    /\ pc = "loop"
    /\ Top.idx > Len(Top.values)
    /\ IF Len(stack) = 1
       THEN /\ result' = [result EXCEPT !["fc"] = [ret |-> "None", value |-> <<>>]]
            /\ reports' = Reported("fc", [ret |-> "None", value |-> <<>>])
            /\ stack' = <<>>
            /\ pc' = "idle"
            /\ UNCHANGED <<grid, domains, backtracks_count>>
       ELSE /\ grid' = [grid EXCEPT ![Caller.variable[1]][Caller.variable[2]] = 0]
            /\ domains' = [fc_undo_pruning(Caller.pruned, domains)
                               EXCEPT ![Caller.variable] = Caller.saved_domain_for_variable]
            /\ backtracks_count' = [backtracks_count EXCEPT !["fc"] = @ + 1]
            /\ stack' = PopAndAdvance
            /\ UNCHANGED <<result, reports, pc>>
    /\ UNCHANGED <<puzzle, adjacency, COLOR_PALETTE, engine, variables, assignments,
                   assignments_count>>

(***************************************************************************)
(* src/sudoku.py: __main__ and backtrack_solve                             *)
(***************************************************************************)
mrv_Main ==
    /\ pc = "idle"
    /\ "mrv" \in DOMAIN result
    /\ result["mrv"].ret = "pending"
    /\ result["fc"].ret # "pending"
    /\ engine' = "mrv"
    /\ domains' = mrv_initial_domains(puzzle)
    /\ assignments_count' = [assignments_count EXCEPT !["mrv"] = 0]
    /\ backtracks_count' = [backtracks_count EXCEPT !["mrv"] = 0]
    /\ grid' = puzzle
    /\ stack' = <<>>
    /\ pc' = "call"
    /\ UNCHANGED <<puzzle, adjacency, COLOR_PALETTE, variables, assignments, result, reports>>

mrv_Enter ==
    /\ engine = "mrv"
    /\ pc = "call"
    /\ LET variable == mrv_select_unassigned_variable(grid, domains) IN
       IF variable = None
       THEN /\ result' = [result EXCEPT !["mrv"] = [ret |-> "grid", value |-> grid]]
            /\ reports' = Reported("mrv", [ret |-> "grid", value |-> grid])
            /\ stack' = <<>>
            /\ pc' = "idle"
       ELSE /\ stack' = Append(stack, [variable |-> variable,
                                       values |-> domains[variable],
                                       idx |-> 1,
                                       saved_domain_for_variable |-> <<>>,
                                       pruned |-> <<>>])
            /\ pc' = "loop"
            /\ UNCHANGED <<result, reports>>
    /\ UNCHANGED <<puzzle, adjacency, COLOR_PALETTE, engine, grid, domains, variables,
                   assignments, assignments_count, backtracks_count>>

mrv_Iterate ==
    /\ engine = "mrv"
    /\ pc = "loop"
    /\ Top.idx <= Len(Top.values)
    /\ LET variable == Top.variable
           row == variable[1]
           column == variable[2]
           value == Top.values[Top.idx]
           assigned == [grid EXCEPT ![row][column] = value]
           saved_domain_for_variable == domains[variable]
           collapsed == [domains EXCEPT ![variable] = <<value>>]
           checked == mrv_forward_check(variable, value, collapsed, assigned)
       IN  IF ~mrv_check_constraint(grid, variable, value)
           THEN /\ stack' = WithTop([Top EXCEPT !.idx = @ + 1])
                /\ UNCHANGED <<grid, domains, assignments_count, backtracks_count, pc>>
           ELSE IF ~checked.is_none
           THEN /\ grid' = assigned
                /\ assignments_count' = [assignments_count EXCEPT !["mrv"] = @ + 1]
                /\ domains' = checked.domains
                /\ stack' = WithTop([Top EXCEPT
                                 !.saved_domain_for_variable = saved_domain_for_variable,
                                 !.pruned = checked.pruned])
                /\ pc' = "call"
                /\ UNCHANGED backtracks_count
           ELSE /\ grid' = [assigned EXCEPT ![row][column] = 0]
                /\ assignments_count' = [assignments_count EXCEPT !["mrv"] = @ + 1]
                /\ domains' = [checked.domains EXCEPT ![variable] = saved_domain_for_variable]
                /\ backtracks_count' = [backtracks_count EXCEPT !["mrv"] = @ + 1]
                /\ stack' = WithTop([Top EXCEPT !.idx = @ + 1])
                /\ UNCHANGED pc
    /\ UNCHANGED <<puzzle, adjacency, COLOR_PALETTE, engine, variables, assignments, result, reports>>

mrv_Return ==
    /\ engine = "mrv"
    /\ pc = "loop"
    /\ Top.idx > Len(Top.values)
    /\ IF Len(stack) = 1
       THEN /\ result' = [result EXCEPT !["mrv"] = [ret |-> "None", value |-> <<>>]]
            /\ reports' = Reported("mrv", [ret |-> "None", value |-> <<>>])
            /\ stack' = <<>>
            /\ pc' = "idle"
            /\ UNCHANGED <<grid, domains, backtracks_count>>
       ELSE /\ grid' = [grid EXCEPT ![Caller.variable[1]][Caller.variable[2]] = 0]
            /\ domains' = [mrv_undo_pruning(Caller.pruned, domains)
                               EXCEPT ![Caller.variable] = Caller.saved_domain_for_variable]
            /\ backtracks_count' = [backtracks_count EXCEPT !["mrv"] = @ + 1]
            /\ stack' = PopAndAdvance
            /\ UNCHANGED <<result, reports, pc>>
    /\ UNCHANGED <<puzzle, adjacency, COLOR_PALETTE, engine, variables, assignments,
                   assignments_count>>

(***************************************************************************)
(* src/map_coloring_csp.py: __main__ and backtrack_solve                   *)
(***************************************************************************)
\* __main__: variables = get_variables(adjacency), reset the counters,
\* backtrack_solve(variables, adjacency, {})
map_Main ==
    /\ pc = "idle"
    /\ "map" \in DOMAIN result
    /\ result["map"].ret = "pending"
    /\ engine' = "map"
    /\ variables' = map_get_variables(adjacency)
    /\ assignments_count' = [assignments_count EXCEPT !["map"] = 0]
    /\ backtracks_count' = [backtracks_count EXCEPT !["map"] = 0]
    /\ assignments' = <<>>
    /\ stack' = <<>>
    /\ pc' = "call"
    /\ UNCHANGED <<puzzle, adjacency, COLOR_PALETTE, grid, domains, result, reports>>

\* a further top-level call in the same process, backtrack_solve(variables,
\* adjacency, {}): backtrack_solve declares the counters global and resets nothing
map_SolveAgain ==
    /\ pc = "idle"
    /\ "map" \in DOMAIN result
    /\ Len(reports["map"]) \in 1..(MaxSolves - 1)
    /\ engine' = "map"
    /\ assignments' = <<>>
    /\ stack' = <<>>
    /\ pc' = "call"
    /\ UNCHANGED <<puzzle, adjacency, COLOR_PALETTE, grid, domains, variables,
                   assignments_count, backtracks_count, result, reports>>

\* map_return_none without "backtracks_count += 1" after the undo
map_return_none_uncounted(callers) ==
    IF callers = <<>>
    THEN /\ result' = [result EXCEPT !["map"] = [ret |-> "None", value |-> <<>>]]
         /\ reports' = Reported("map", [ret |-> "None", value |-> <<>>])
         /\ stack' = <<>>
         /\ pc' = "idle"
         /\ UNCHANGED <<assignments, backtracks_count>>
    ELSE LET caller == callers[Len(callers)] IN
         /\ assignments' = [r \in (DOMAIN assignments) \ {caller.variable} |-> assignments[r]]
         /\ stack' = [callers EXCEPT ![Len(callers)].idx = @ + 1]
         /\ pc' = "loop"
         /\ UNCHANGED <<result, reports, backtracks_count>>

\* the call returns None: to __main__, or to its caller, which removes its
\* assignment and moves to its next colour
map_return_none(callers) ==
    IF callers = <<>>
    THEN /\ result' = [result EXCEPT !["map"] = [ret |-> "None", value |-> <<>>]]
         /\ reports' = Reported("map", [ret |-> "None", value |-> <<>>])
         /\ stack' = <<>>
         /\ pc' = "idle"
         /\ UNCHANGED <<assignments, backtracks_count>>
    ELSE LET caller == callers[Len(callers)] IN
         /\ assignments' = [r \in (DOMAIN assignments) \ {caller.variable} |-> assignments[r]]
         /\ backtracks_count' = [backtracks_count EXCEPT !["map"] = @ + 1]
         /\ stack' = [callers EXCEPT ![Len(callers)].idx = @ + 1]
         /\ pc' = "loop"
         /\ UNCHANGED <<result, reports>>

\* entry of a call: the completion check, the selection, the sorted domain
map_Enter ==
    /\ engine = "map"
    /\ pc = "call"
    /\ LET variable == map_select_unassigned_variable(variables, assignments) IN
       IF Cardinality(DOMAIN assignments) = Len(variables)
       THEN /\ result' = [result EXCEPT !["map"] = [ret |-> "dict", value |-> assignments]]
            /\ reports' = Reported("map", [ret |-> "dict", value |-> assignments])
            /\ stack' = <<>>
            /\ pc' = "idle"
            /\ UNCHANGED <<assignments, backtracks_count>>
       ELSE IF variable = NoneStr
       THEN map_return_none(stack)
       ELSE /\ stack' = Append(stack, [variable |-> variable,
                                       values |-> sorted_str(map_get_domain(variable)),
                                       idx |-> 1])
            /\ pc' = "loop"
            /\ UNCHANGED <<assignments, backtracks_count, result, reports>>
    /\ UNCHANGED <<puzzle, adjacency, COLOR_PALETTE, engine, grid, domains, variables,
                   assignments_count>>

map_Iterate ==
    /\ engine = "map"
    /\ pc = "loop"
    /\ Top.idx <= Len(Top.values)
    /\ LET variable == Top.variable
           color_choice == Top.values[Top.idx]
       IN  IF ~map_check_constraint(assignments, adjacency, variable, color_choice)
           THEN /\ stack' = WithTop([Top EXCEPT !.idx = @ + 1])
                /\ UNCHANGED <<assignments, assignments_count, pc>>
           ELSE /\ assignments' =
                       [r \in (DOMAIN assignments) \cup {variable} |->
                           IF r = variable THEN color_choice ELSE assignments[r]]
                /\ assignments_count' = [assignments_count EXCEPT !["map"] = @ + 1]
                /\ pc' = "call"
                /\ UNCHANGED stack
    /\ UNCHANGED <<puzzle, adjacency, COLOR_PALETTE, engine, grid, domains, variables,
                   backtracks_count, result, reports>>

map_Return ==
    /\ engine = "map"
    /\ pc = "loop"
    /\ Top.idx > Len(Top.values)
    /\ map_return_none(SubSeq(stack, 1, Len(stack) - 1))
    /\ UNCHANGED <<puzzle, adjacency, COLOR_PALETTE, engine, grid, domains, variables,
                   assignments_count>>

Next ==
    \/ csp_Main \/ csp_SolveAgain \/ csp_Enter \/ csp_Iterate \/ csp_Return
    \/ fc_Main \/ fc_Enter \/ fc_Iterate \/ fc_Return
    \/ mrv_Main \/ mrv_Enter \/ mrv_Iterate \/ mrv_Return
    \/ map_Main \/ map_SolveAgain \/ map_Enter \/ map_Iterate \/ map_Return

Spec == Init /\ [][Next]_vars

\* execution is synchronous and single-threaded: the interpreter does not stop
\* while a call is active.  A behaviour takes steps for ever or comes to rest
\* with no call active
FairSpec == Spec /\ ([]<><<Next>>_vars \/ <>[](pc = "idle"))

(***************************************************************************)
(* Vocabulary of the properties                                            *)
(***************************************************************************)
\* script e has returned from its top-level backtrack_solve
IsDone(e) == e \in DOMAIN result /\ result[e].ret # "pending"

\* the state in which the top-level backtrack_solve of script e has just returned
JustReturned(e) == engine = e /\ pc = "idle" /\ IsDone(e)

\* the 27 units of a Sudoku grid: rows, columns, 3x3 boxes, as sets of cells
Units ==
    {{<<r, c>> : c \in 0..8} : r \in 0..8}
    \cup {{<<r, c>> : r \in 0..8} : c \in 0..8}
    \cup {{<<3 * br + r, 3 * bc + c>> : r \in 0..2, c \in 0..2} : br \in 0..2, bc \in 0..2}

\* every row, column and box holds each of 1..9 (hence, with 9 cells, exactly once)
ValidGrid(g) == \A U \in Units : {g[cell[1]][cell[2]] : cell \in U} = 1..9

\* every cell that is non-zero in the input has the same value in the output
FixedCellsKept(input, output) ==
    \A r \in 0..8, c \in 0..8 : input[r][c] # 0 => output[r][c] = input[r][c]

\* a valid completion of the input grid
IsCompletion(input, output) == ValidGrid(output) /\ FixedCellsKept(input, output)

\* two equal non-zero values in one row of the grid
HasRowDuplicate(g) ==
    \E r \in 0..8 : \E c1, c2 \in 0..8 : c1 # c2 /\ g[r][c1] # 0 /\ g[r][c1] = g[r][c2]

(***************************************************************************)
(* C1.  Whenever one of the three Sudoku scripts returns a grid, every row, *)
(* column and 3x3 box of it holds each of 1..9 exactly once and every cell  *)
(* that was non-zero in the input is unchanged.  Stated as claimed; the     *)
(* scripts return a grid whose givens clash.                                *)
(***************************************************************************)
C1_ReturnedGridIsValidCompletion ==
    \A e \in SudokuEngines \cap DOMAIN result :
        result[e].ret = "grid" => IsCompletion(puzzle, result[e].value)

(***************************************************************************)
(* C4.  On every input grid the plain script and the forward-checking       *)
(* script give the same answer: both None, or equal grids.  Stated as       *)
(* claimed; the forward-checking script loses solutions.                    *)
(***************************************************************************)
C4_PlainAndForwardCheckAgree ==
    (IsDone("csp") /\ IsDone("fc")) => result["csp"] = result["fc"]

(***************************************************************************)
(* C7.  On every input grid the MRV script and the two static-order        *)
(* scripts agree on solvability, and each returned grid is a valid          *)
(* completion of the input.  Stated as claimed.                             *)
(***************************************************************************)
C7_MrvAgreesOnSolvability ==
    (IsDone("csp") /\ IsDone("fc") /\ IsDone("mrv")) =>
        /\ result["mrv"].ret = result["csp"].ret
        /\ result["mrv"].ret = result["fc"].ret
        /\ \A e \in SudokuEngines :
               result[e].ret = "grid" => IsCompletion(puzzle, result[e].value)

(***************************************************************************)
(* C8.  For an input grid with two equal non-zero values in one row, the    *)
(* Sudoku backtrack_solve returns None, and at that return the grid equals  *)
(* the input grid cell for cell.  Stated as claimed.                        *)
(***************************************************************************)
C8_RowDuplicateIsNotFound ==
    \A e \in SudokuEngines :
        (JustReturned(e) /\ HasRowDuplicate(puzzle)) =>
            (result[e].ret = "None" /\ grid = puzzle)

(***************************************************************************)
(* C9.  On the example puzzle each of the three Sudoku scripts returns the  *)
(* completion 534678912 / 672195348 / ... / 345286179.  Stated as claimed.  *)
(***************************************************************************)
C9_ExamplePuzzleIsSolved ==
    \A e \in SudokuEngines :
        (IsDone(e) /\ puzzle = example_puzzle) =>
            (result[e].ret = "grid" /\ result[e].value = ExampleSolution)

(***************************************************************************)
(* Trials of the forward-checking scripts, for C5 and C6                   *)
(***************************************************************************)
\* the loop of script e stands before a value of the selected variable
AtCandidate(e) == engine = e /\ pc = "loop" /\ Top.idx <= Len(Top.values)

CandidateValue == Top.values[Top.idx]

\* the grid after "grid[row][column] = value" of the trial at hand
TrialGrid == [grid EXCEPT ![Top.variable[1]][Top.variable[2]] = CandidateValue]

\* what forward_check does in the trial at hand, after the domain is collapsed
fc_TrialCheck ==
    fc_forward_check(Top.variable, CandidateValue,
                     [domains EXCEPT ![Top.variable] = <<CandidateValue>>], TrialGrid)

mrv_TrialCheck ==
    mrv_forward_check(Top.variable, CandidateValue,
                      [domains EXCEPT ![Top.variable] = <<CandidateValue>>], TrialGrid)

\* the next iteration is a trial whose forward_check ends in a wipeout
fc_WipeoutAhead ==
    /\ AtCandidate("fc")
    /\ fc_check_constraint(grid, Top.variable, CandidateValue)
    /\ fc_TrialCheck.is_none

mrv_WipeoutAhead ==
    /\ AtCandidate("mrv")
    /\ mrv_check_constraint(grid, Top.variable, CandidateValue)
    /\ mrv_TrialCheck.is_none

\* the next iteration is a trial whose forward_check returns a record
fc_RecordAhead ==
    /\ AtCandidate("fc")
    /\ fc_check_constraint(grid, Top.variable, CandidateValue)
    /\ ~fc_TrialCheck.is_none

mrv_RecordAhead ==
    /\ AtCandidate("mrv")
    /\ mrv_check_constraint(grid, Top.variable, CandidateValue)
    /\ ~mrv_TrialCheck.is_none

\* the values each domain holds
DomainValues(domains_) ==
    [variable \in DOMAIN domains_ |->
        {domains_[variable][i] : i \in 1..Len(domains_[variable])}]

\* grid and domains after: assign, collapse, forward_check, undo_pruning(record),
\* clear the cell, restore the saved domain
fc_TrialUndone ==
    [grid |-> [TrialGrid EXCEPT ![Top.variable[1]][Top.variable[2]] = 0],
     domains |-> [fc_undo_pruning(fc_TrialCheck.pruned, fc_TrialCheck.domains)
                      EXCEPT ![Top.variable] = domains[Top.variable]]]

mrv_TrialUndone ==
    [grid |-> [TrialGrid EXCEPT ![Top.variable[1]][Top.variable[2]] = 0],
     domains |-> [mrv_undo_pruning(mrv_TrialCheck.pruned, mrv_TrialCheck.domains)
                      EXCEPT ![Top.variable] = domains[Top.variable]]]

(***************************************************************************)
(* C5.  In both forward-checking scripts, when the forward_check of a trial *)
(* ends in a wipeout, the removals it made are put back: when the script    *)
(* moves on to the next value of the same variable, every domain holds      *)
(* exactly the values it held before the trial.  Stated as claimed; the     *)
(* scripts drop the record of a failed forward_check and undo nothing.      *)
(***************************************************************************)
C5_WipeoutIsUndone ==
    [][(fc_WipeoutAhead \/ mrv_WipeoutAhead)
          => DomainValues(domains') = DomainValues(domains)]_vars

(***************************************************************************)
(* C6.  In both forward-checking scripts, for a trial whose forward_check   *)
(* returned a record, the sequence assign, collapse, forward_check,         *)
(* undo_pruning(record), clear, restore leaves the grid and every domain    *)
(* list (same values, same order) as before the sequence.  Stated as        *)
(* claimed; undo_pruning of sudoku_forward_check.py appends at the end.     *)
(***************************************************************************)
C6_TrialUndoRestoresLists ==
    /\ fc_RecordAhead => fc_TrialUndone = [grid |-> grid, domains |-> domains]
    /\ mrv_RecordAhead => mrv_TrialUndone = [grid |-> grid, domains |-> domains]

(***************************************************************************)
(* Map colourings                                                          *)
(***************************************************************************)
\* the adjacency mapping is symmetric and has no self-loops
SymmetricNoLoops(adjacency_) ==
    \A a \in DOMAIN adjacency_ :
        /\ ~In(a, adjacency_[a])
        /\ \A i \in 1..Len(adjacency_[a]) :
               /\ adjacency_[a][i] \in DOMAIN adjacency_
               /\ In(a, adjacency_[adjacency_[a][i]])

PaletteColors == {COLOR_PALETTE[i] : i \in 1..Len(COLOR_PALETTE)}

\* one entry per region, every value a palette colour, neighbours differ
ProperColoring(adjacency_, coloring) ==
    /\ DOMAIN coloring = DOMAIN adjacency_
    /\ \A a \in DOMAIN adjacency_ :
           /\ coloring[a] \in PaletteColors
           /\ \A i \in 1..Len(adjacency_[a]) : coloring[a] # coloring[adjacency_[a][i]]

\* the toy graph of C10: four regions adjacent in a cycle
CycleOfFour ==
    [r \in {"A", "B", "C", "D"} |->
        CASE r = "A" -> <<"B", "D">>
          [] r = "B" -> <<"A", "C">>
          [] r = "C" -> <<"B", "D">>
          [] r = "D" -> <<"A", "C">>]

(***************************************************************************)
(* C2.  Whenever the map script's backtrack_solve, called with an empty     *)
(* assignment on a symmetric adjacency mapping without self-loops, returns  *)
(* a mapping, it has one entry per region, every value is a palette colour, *)
(* and the colours of every region and each of its neighbours differ.       *)
(***************************************************************************)
C2_ReturnedColoringIsProper ==
    (IsDone("map") /\ SymmetricNoLoops(adjacency) /\ result["map"].ret = "dict")
        => ProperColoring(adjacency, result["map"].value)

\* a colouring was returned, after backtracking, for a map with a region that
\* has at least two neighbours
C2_Witness ==
    /\ IsDone("map")
    /\ result["map"].ret = "dict"
    /\ backtracks_count["map"] > 0
    /\ \E a \in DOMAIN adjacency : Len(adjacency[a]) >= 2

(***************************************************************************)
(* C10.  As claimed: on the cycle of four regions the map script returns    *)
(* None with a palette of 2 colours and a valid colouring with 3.           *)
(***************************************************************************)
C10_CycleNeedsThreeColors ==
    (IsDone("map") /\ adjacency = CycleOfFour) =>
        /\ Len(COLOR_PALETTE) = 2 => result["map"].ret = "None"
        /\ Len(COLOR_PALETTE) = 3 =>
               (result["map"].ret = "dict" /\ ProperColoring(adjacency, result["map"].value))

(***************************************************************************)
(* C10, amended.  On the cycle of four regions the map script returns a     *)
(* valid colouring with a palette of 2 colours as well as with 3.           *)
(***************************************************************************)
C10_CycleIsColoredWithTwoOrThree ==
    (IsDone("map") /\ adjacency = CycleOfFour /\ Len(COLOR_PALETTE) \in {2, 3}) =>
        (result["map"].ret = "dict" /\ ProperColoring(adjacency, result["map"].value))

\* the cycle of four regions was coloured with a palette of 2 colours
C10_Witness ==
    /\ IsDone("map")
    /\ adjacency = CycleOfFour
    /\ Len(COLOR_PALETTE) = 2
    /\ result["map"].ret = "dict"
    /\ ProperColoring(adjacency, result["map"].value)

(***************************************************************************)
(* All total consistent assignments, computed breadth-first                *)
(***************************************************************************)
\* no other cell of a unit of (r, c) holds v in g
FreeFor(g, r, c, v) ==
    \A U \in Units :
        <<r, c>> \in U => \A cell \in U \ {<<r, c>>} : g[cell[1]][cell[2]] # v

\* G: the fillings of the empty cells before the k-th (row-major) in which no
\* filled-in value clashes with a given or with another filled-in value
RECURSIVE FillFrom(_, _, _)
FillFrom(input, k, G) ==
    IF k > 81 THEN G
    ELSE LET r == (k - 1) \div 9
             c == (k - 1) % 9
         IN  IF input[r][c] # 0 THEN FillFrom(input, k + 1, G)
             ELSE FillFrom(input, k + 1,
                      {[x[1] EXCEPT ![r][c] = x[2]] :
                          x \in {y \in G \X (1..9) : FreeFor(y[1], r, c, y[2])}})

\* the grids that fill every empty cell of the input and satisfy all constraints
SudokuCompletions(input) == {g \in FillFrom(input, 1, {input}) : ValidGrid(g)}

\* the proper colourings of the map with the palette
MapColorings(adjacency_) ==
    {coloring \in [DOMAIN adjacency_ -> PaletteColors] : ProperColoring(adjacency_, coloring)}

(***************************************************************************)
(* C3.  The plain scripts are complete: the plain Sudoku backtrack_solve    *)
(* and the map backtrack_solve return None only when no total assignment    *)
(* fills every unassigned variable consistently with all constraints, and   *)
(* whenever one exists they return one.                                     *)
(***************************************************************************)
C3_PlainEnginesAreComplete ==
    /\ JustReturned("csp") =>
           LET completions == SudokuCompletions(puzzle) IN
           /\ result["csp"].ret = "None" => completions = {}
           /\ completions # {} =>
                  (result["csp"].ret = "grid" /\ result["csp"].value \in completions)
    /\ JustReturned("map") =>
           LET colorings == MapColorings(adjacency) IN
           /\ result["map"].ret = "None" => colorings = {}
           /\ colorings # {} =>
                  (result["map"].ret = "dict" /\ result["map"].value \in colorings)

\* the plain Sudoku script returned None after a search that assigned and
\* backtracked, on an input without a row duplicate
C3_Witness ==
    /\ JustReturned("csp")
    /\ result["csp"].ret = "None"
    /\ backtracks_count["csp"] > 0
    /\ ~HasRowDuplicate(puzzle)

(***************************************************************************)
(* Counters                                                                *)
(***************************************************************************)
\* the number of variables that are unassigned in the input of script e
Unassigned(e) ==
    IF e = "map" THEN Cardinality(DOMAIN adjacency)
    ELSE Cardinality({cell \in (0..8) \X (0..8) : puzzle[cell[1]][cell[2]] = 0})

\* the step in which the first top-level call of script e returns; that call
\* started with both counters at zero
FirstSolveReturns(e) == Len(reports[e]) = 0 /\ Len(reports'[e]) = 1

(***************************************************************************)
(* C11.  As claimed: when the first top-level solve of a script returns     *)
(* with backtracks_count = 0, check_constraint rejected no candidate value  *)
(* during the solve.  With no backtrack counted no call has returned None   *)
(* to a caller, so at the return every call made is still on the stack, and *)
(* a frame's loop is beyond its first value only through a rejection.       *)
(***************************************************************************)
C11_NoBacktrackMeansNoRejection ==
    [][\A e \in DOMAIN result :
          (FirstSolveReturns(e) /\ backtracks_count[e] = 0)
              => \A i \in 1..Len(stack) : stack[i].idx = 1]_vars

(***************************************************************************)
(* C11, amended.  When a top-level solve started with zeroed counters ends  *)
(* with backtracks_count = 0, no assignment it made was undone:             *)
(* assignments_count is the number of variables unassigned in the input     *)
(* when a solution is returned, and 0 when None is returned.                *)
(***************************************************************************)
C11_NoBacktrackMeansNothingUndone ==
    \A e \in DOMAIN reports :
        (Len(reports[e]) >= 1 /\ reports[e][1].backtracks_count = 0) =>
            reports[e][1].assignments_count =
                IF reports[e][1].result.ret = "None" THEN 0 ELSE Unassigned(e)

\* the plain Sudoku script solved, without a backtrack, an input with at least
\* two empty cells whose first empty cell is (0, 0): it wrote 5 there, after
\* check_constraint rejected 1, 2, 3 and 4
C11_Witness ==
    /\ "csp" \in DOMAIN reports
    /\ Len(reports["csp"]) >= 1
    /\ reports["csp"][1].backtracks_count = 0
    /\ reports["csp"][1].assignments_count >= 2
    /\ reports["csp"][1].result.ret = "grid"
    /\ puzzle[0][0] = 0
    /\ reports["csp"][1].result.value[0][0] = 5

(***************************************************************************)
(* C12.  As claimed: the counters are reset at the start of each top-level  *)
(* solve, and the counters do not influence the result.  Every top-level    *)
(* call of a process solves the same input, so each performs the            *)
(* assignments and backtracks of the first, which started from zero: after  *)
(* each call the caller sees the counters and the value it saw after the    *)
(* first.                                                                   *)
(***************************************************************************)
C12_CountersAreThoseOfTheLastSolve ==
    \A e \in DOMAIN reports :
        \A k \in 2..Len(reports[e]) : reports[e][k] = reports[e][1]

(***************************************************************************)
(* Selection by minimum remaining values                                   *)
(***************************************************************************)
\* the empty cells of a grid
EmptyCells(grid_) == {cell \in (0..8) \X (0..8) : grid_[cell[1]][cell[2]] = 0}

\* variable is None when no cell is empty, and otherwise the empty cell with the
\* fewest values in its domain, the smallest (row, column) among those
IsMrvChoice(grid_, domains_, variable) ==
    IF EmptyCells(grid_) = {} THEN variable = None
    ELSE /\ variable \in EmptyCells(grid_)
         /\ \A other \in EmptyCells(grid_) \ {variable} :
                \/ Len(domains_[variable]) < Len(domains_[other])
                \/ /\ Len(domains_[variable]) = Len(domains_[other])
                   /\ tuple_less(variable, other)

(***************************************************************************)
(* C13.  As claimed: at every call of the MRV script's backtrack_solve,     *)
(* select_unassigned_variable returns None exactly when no cell is empty,   *)
(* and otherwise the empty cell with the fewest values in its domain, ties  *)
(* broken by the smallest (row, column); so a cell with an empty domain is  *)
(* returned whenever there is one.                                          *)
(***************************************************************************)
C13_MrvSelectsSmallestDomain ==
    (engine = "mrv" /\ pc = "call") =>
        IsMrvChoice(grid, domains, mrv_select_unassigned_variable(grid, domains))

(***************************************************************************)
(* Frame of forward_check                                                  *)
(***************************************************************************)
\* the cells that share a row, a column or a box with the cell
PeerCells(cell) == (UNION {U \in Units : cell \in U}) \ {cell}

\* the list without the value, the other values in their order
Without(list, value) ==
    LET other(x) == x # value IN SelectSeq(list, other)

\* the peers of the variable whose domain differs between the two stores
ChangedPeers(variable, before, after) ==
    {cell \in PeerCells(variable) : after[cell] # before[cell]}

\* checked is what forward_check(variable, value, before, grid_) leaves and
\* returns: only domains of empty peers changed, and only by losing the value;
\* a returned record lists the peers that lost it, each once
ForwardCheckFrame(variable, value, grid_, before, checked) ==
    /\ DOMAIN checked.domains = DOMAIN before
    /\ \A cell \in DOMAIN before :
           IF cell \in PeerCells(variable) /\ grid_[cell[1]][cell[2]] = 0
           THEN checked.domains[cell] \in {before[cell], Without(before[cell], value)}
           ELSE checked.domains[cell] = before[cell]
    /\ ~checked.is_none =>
           /\ {checked.pruned[i] : i \in 1..Len(checked.pruned)}
                  = {<<cell, value>> : cell \in ChangedPeers(variable, before, checked.domains)}
           /\ Len(checked.pruned)
                  = Cardinality(ChangedPeers(variable, before, checked.domains))

\* the domains handed to forward_check in the trial at hand
TrialDomains == [domains EXCEPT ![Top.variable] = <<CandidateValue>>]

(***************************************************************************)
(* C14.  In every trial of the forward-checking scripts, forward_check      *)
(* changes nothing but the domains of the peers of the variable whose cell  *)
(* is empty, and those only by removing the value: the domain of the        *)
(* variable, of non-peers and of filled peers, and every other value of     *)
(* every domain stay; a returned record lists exactly the pairs (peer,      *)
(* value) of the peers whose domain lost the value, each once.  (The grid   *)
(* is an argument that forward_check only reads.)                           *)
(***************************************************************************)
C14_ForwardCheckFrame ==
    /\ (AtCandidate("fc") /\ fc_check_constraint(grid, Top.variable, CandidateValue))
           => ForwardCheckFrame(Top.variable, CandidateValue, TrialGrid, TrialDomains,
                                fc_TrialCheck)
    /\ (AtCandidate("mrv") /\ mrv_check_constraint(grid, Top.variable, CandidateValue))
           => ForwardCheckFrame(Top.variable, CandidateValue, TrialGrid, TrialDomains,
                                mrv_TrialCheck)

\* a trial of sudoku_forward_check.py whose forward_check returns a record of at
\* least two peers, while another empty peer did not hold the value
C14_Witness ==
    /\ fc_RecordAhead
    /\ Len(fc_TrialCheck.pruned) >= 2
    /\ \E cell \in PeerCells(Top.variable) :
           /\ grid[cell[1]][cell[2]] = 0
           /\ ~In(CandidateValue, domains[cell])

(***************************************************************************)
(* C15.  On every grid the MRV script's search holds, for every cell and    *)
(* every value in 1..9: check_constraint(grid, cell, value) is False        *)
(* exactly when some cell of peers_of(cell) holds the value, whatever the   *)
(* cell itself holds; peers_of(cell) lists the other cells of the row, the  *)
(* column and the 3x3 box of the cell.  (The grid is an argument that       *)
(* check_constraint only reads.)                                            *)
(***************************************************************************)
C15_CheckConstraintIsPeerTest ==
    (engine = "mrv" /\ pc = "loop") =>
        \A cell \in (0..8) \X (0..8) :
            LET peers == mrv_peers_of(cell) IN
            /\ {peers[i] : i \in 1..Len(peers)} = PeerCells(cell)
            /\ \A value \in 1..9 :
                   mrv_check_constraint(grid, cell, value)
                       = ~(\E i \in 1..Len(peers) : grid[peers[i][1]][peers[i][2]] = value)

\* a grid of the MRV search on which check_constraint accepts, for a filled
\* cell, the value the cell itself holds, and rejects another value for it
C15_Witness ==
    /\ engine = "mrv"
    /\ pc = "loop"
    /\ \E cell \in (0..8) \X (0..8) :
           /\ grid[cell[1]][cell[2]] # 0
           /\ mrv_check_constraint(grid, cell, grid[cell[1]][cell[2]])
           /\ \E value \in 1..9 : ~mrv_check_constraint(grid, cell, value)

(***************************************************************************)
(* Termination and recursion depth                                         *)
(***************************************************************************)
\* a top-level call of backtrack_solve starts
SolveStarts == pc = "call" /\ stack = <<>>

\* the top-level call of the running script has returned a solution or None
SolveEnded ==
    /\ pc = "idle"
    /\ engine \in DOMAIN result
    /\ result[engine].ret \in {"grid", "dict", "None"}

\* the active backtrack_solve frames that hold a tentative assignment: all the
\* frames below a call that enters, all but the innermost while it loops
Depth == IF pc = "call" THEN Len(stack) ELSE IF pc = "loop" THEN Len(stack) - 1 ELSE 0

(***************************************************************************)
(* C16.  Every top-level solve ends: it returns a solution or None; and at  *)
(* every point of the search the number of active backtrack_solve frames    *)
(* that hold a tentative assignment is at most the number of variables      *)
(* unassigned in the input.                                                 *)
(***************************************************************************)
C16_SolveEndsWithinDepth ==
    /\ SolveStarts ~> SolveEnded
    /\ [](pc # "idle" => Depth <= Unassigned(engine))

\* the plain Sudoku search at its full depth, at least two: every cell that was
\* empty in the input holds a tentative value and the last call enters
C16_Witness ==
    /\ engine = "csp"
    /\ pc = "call"
    /\ Depth >= 2
    /\ Depth = Unassigned("csp")

(***************************************************************************)
(* Counter balance                                                         *)
(***************************************************************************)
\* the number of variables that hold a tentative value written by the search of
\* script e: cells empty in the input and filled in the grid, or the entries of
\* the assignments dict
Tentative(e) ==
    IF e = "map" THEN Cardinality(DOMAIN assignments)
    ELSE Cardinality({cell \in (0..8) \X (0..8) :
                         puzzle[cell[1]][cell[2]] = 0 /\ grid[cell[1]][cell[2]] # 0})

\* the first top-level solve of script e, which starts with zeroed counters, is
\* running or has just returned
InFirstSolve(e) ==
    /\ engine = e
    /\ \/ pc # "idle" /\ Len(reports[e]) = 0
       \/ pc = "idle" /\ Len(reports[e]) = 1

(***************************************************************************)
(* C17.  In every script, at every point of a solve started with zeroed     *)
(* counters, assignments_count - backtracks_count is the number of          *)
(* variables that hold a tentative value written by the search (a trial     *)
(* that ends in a wipeout counts one assignment and one backtrack).  When   *)
(* a solution is returned the difference is the number of variables         *)
(* unassigned in the input, so assignments_count >= 1 if there was one;     *)
(* when None is returned the two counters are equal.                        *)
(***************************************************************************)
C17_CountersBalance ==
    \A e \in DOMAIN reports :
        InFirstSolve(e) =>
            /\ assignments_count[e] - backtracks_count[e] = Tentative(e)
            /\ (pc = "idle" /\ result[e].ret \in {"grid", "dict"}) =>
                   /\ assignments_count[e] - backtracks_count[e] = Unassigned(e)
                   /\ Unassigned(e) >= 1 => assignments_count[e] >= 1
            /\ (pc = "idle" /\ result[e].ret = "None") =>
                   assignments_count[e] = backtracks_count[e]

\* the MRV script's first search stands at a value loop with at least two
\* tentative values in the grid, after a wipeout and other backtracks
C17_Witness ==
    /\ InFirstSolve("mrv")
    /\ pc = "loop"
    /\ Tentative("mrv") >= 2
    /\ backtracks_count["mrv"] >= 2

(***************************************************************************)
(* Domains and the grid agree                                              *)
(***************************************************************************)
\* no value in the domain of an empty cell is held in the grid by a peer of it
DomainsAvoidPeers(grid_, domains_) ==
    \A cell \in EmptyCells(grid_) :
        \A value \in 1..9 :
            In(value, domains_[cell]) =>
                \A peer \in PeerCells(cell) : grid_[peer[1]][peer[2]] # value

(***************************************************************************)
(* C18.  In both forward-checking scripts, started with                     *)
(* domains = initial_domains(grid), at every point where backtrack_solve    *)
(* selects a variable no value in the domain of an empty cell is held in    *)
(* the grid by a peer of that cell; and check_constraint accepts every      *)
(* candidate the value loop draws from the selected variable's domain.      *)
(***************************************************************************)
C18_DomainsAvoidPeers ==
    /\ (engine \in {"fc", "mrv"} /\ pc = "call") => DomainsAvoidPeers(grid, domains)
    /\ AtCandidate("fc") => fc_check_constraint(grid, Top.variable, CandidateValue)
    /\ AtCandidate("mrv") => mrv_check_constraint(grid, Top.variable, CandidateValue)

\* the forward-checking script selects again after a backtrack, below an
\* assignment that pruned the domain of a cell that is still empty
C18_Witness ==
    /\ engine = "fc"
    /\ pc = "call"
    /\ Len(stack) >= 1
    /\ backtracks_count["fc"] >= 1
    /\ \E cell \in EmptyCells(grid) :
          /\ domains[cell] # <<>>
          /\ Len(domains[cell]) < Len(fc_initial_domains(puzzle)[cell])

====
